---- MODULE Spec2Model ----
(***************************************************************************)
(* Model of msagent.py: the document accessors (_asList,                   *)
(* getAnimationData), the image preload, and the playback worker           *)
(* (AnimationWorker.run, _playAnimation, _composeFrame) running on its own *)
(* thread while the controller may call stop() at any moment.              *)
(*                                                                         *)
(* A Python value read from the document is a tagged scalar: None (key     *)
(* absent), an int or a str.  A child slot of a dict is absent, a single   *)
(* dict, or a list of dicts (what _addChild builds); "nodes" holds the     *)
(* dict(s) in both non-empty cases and "k" tells which of the two Python   *)
(* objects is stored under the key.                                        *)
(*                                                                         *)
(* parseAcd runs at load time, before the worker exists.  It is modelled   *)
(* line by line over a heap of dicts, a line being the sequence of its     *)
(* lexical pieces.  _parseVal and listAnimations are applied to arguments  *)
(* drawn from bounded sets.  Each of these has its own specification; the  *)
(* variables of the others keep their initial values meanwhile.            *)
(***************************************************************************)
EXTENDS Integers, Sequences, FiniteSets, TLC

VARIABLES
    data,            \* AnimationWorker.data: the document tree (shared dicts/lists)
    parsed,          \* the tree as parseAcd returned it (never assigned after Init)
    animations,      \* AnimationWorker.animations
    speed,           \* AnimationWorker.speed, an exact rational num/den
    cycles,          \* AnimationWorker.cycles
    running,         \* AnimationWorker._running
    imageCache,      \* keys of AnimationWorker._imageCache
    defaultDuration, \* AnimationWorker.defaultDuration
    loopCount,       \* run: loopCount
    pc,              \* position of the worker thread
    animIdx,         \* run: position of the for loop over self.animations
    curAnim,         \* _playAnimation: index of animationData in the Animation list
    frameIdx,        \* _playAnimation: position of the for loop over frames
    trace,           \* observable effects of the worker, in order
    stopAt,          \* how far trace had grown when stop() first cleared the flag
    stopPos,         \* where the worker was at that moment
    text,            \* parseAcd: text.splitlines()
    lineNo,          \* parseAcd: lines of text already processed
    heap,            \* parseAcd: the dicts created so far; heap[1] is data
    stack,           \* parseAcd: stack, each entry a block type and a dict
    status,          \* parseAcd: "parsing", "returned" or "raised"
    log,             \* what each processed line did, in order
    arg,             \* the argument of a call of _parseVal or listAnimations
    ret              \* what that call returned or raised

loadVars == <<text, lineNo, heap, stack, status, log, arg, ret>>

vars == <<data, parsed, animations, speed, cycles, running, imageCache,
          defaultDuration, loopCount, pc, animIdx, curAnim, frameIdx,
          trace, stopAt, stopPos, loadVars>>

-----------------------------------------------------------------------------
(* Bounds of the model *)

MaxFrames == 2      \* frames per animation
MaxNames  == 2      \* length of the requested animation list
MaxCycles == 2      \* largest finite cycle count
MaxPasses == 2      \* passes explored when cycles = -1
MaxLines  == 4      \* lines of a text given to parseAcd
MaxValueLen == 4    \* pieces of a value text given to _parseVal
MaxAnims  == 2      \* items stored under Animation in a listed document

-----------------------------------------------------------------------------
(* Python values *)

None    == [t |-> "none", n |-> 0, s |-> ""]
IntV(i) == [t |-> "int", n |-> i, s |-> ""]
StrV(x) == [t |-> "str", n |-> 0, s |-> x]

\* bool(v) for a scalar read with dict.get
Truthy(v) == \/ v.t = "int" /\ v.n # 0
             \/ v.t = "str" /\ v.s # ""

Absent    == [k |-> "none", nodes |-> <<>>]
One(d)    == [k |-> "one", nodes |-> <<d>>]
Many(ds)  == [k |-> "many", nodes |-> ds]

Reverse(s) == [i \in 1..Len(s) |-> s[Len(s) + 1 - i]]

RECURSIVE SelectCached(_, _)
SelectCached(names, cache) ==
    IF names = <<>> THEN <<>>
    ELSE IF Head(names) \in cache
         THEN <<Head(names)>> \o SelectCached(Tail(names), cache)
         ELSE SelectCached(Tail(names), cache)

SeqsUpTo(S, n) == UNION {[1..m -> S] : m \in 0..n}

-----------------------------------------------------------------------------
(* Documents *)

Image(fname) == [Filename |-> StrV(fname)]

Frame(images, duration, sound) ==
    [Image |-> images, Duration |-> duration, SoundEffect |-> sound]

Animation(name, frames) == [id |-> StrV(name), Frame |-> frames]

Character(dflt) == [DefaultFrameDuration |-> dflt]

\* files present next to the .acd file (os.path.isfile)
DiskFiles == {"a.bmp", "b.bmp"}

\* the frames documents are built from, in a fixed round
FrameRing ==
    << Frame(One(Image("a.bmp")), IntV(5), None),
       Frame(Many(<<Image("a.bmp"), Image("x.bmp"), Image("b.bmp")>>),
             None, StrV("s.wav")),
       Frame(One(Image("x.bmp")), IntV(0), StrV("s.wav")),
       Frame(One(Image("b.bmp")), StrV("fast"), StrV("t.wav")) >>

\* n consecutive frames of the round, starting at position i
FrameRun(i, n) ==
    [j \in 1..n |-> FrameRing[((i + j - 2) % Len(FrameRing)) + 1]]

\* what _addChild leaves under Frame after 0, 1 or more DefineFrame blocks
FrameSlots ==
    {Absent} \cup {One(FrameRing[i]) : i \in 1..Len(FrameRing)}
             \cup {Many(FrameRun(i, n)) : i \in 1..Len(FrameRing), n \in 2..MaxFrames}

\* a Character that declares a default, and two Characters, the first without
CharacterSlots ==
    { One(Character(IntV(3))),
      Many(<<Character(None), Character(IntV(3))>>) }

\* no animation, the single animation "A", or "B" followed by "A"
AnimationSlots ==
    {Absent}
    \cup {One(Animation("A", fs)) : fs \in FrameSlots}
    \cup {Many(<<Animation("B", One(FrameRing[1])),
                 Animation("A", Many(FrameRun(2, 2)))>>)}

\* every Character with every Animation slot, and two documents that have
\* no Character: the empty one, and one animation of two frames
Documents ==
    {[Character |-> c, Animation |-> a] :
        c \in CharacterSlots, a \in AnimationSlots}
    \cup {[Character |-> Absent, Animation |-> a] :
             a \in {Absent, One(Animation("A", Many(FrameRun(1, 2))))}}

\* requested names: "A" is in every document that has animations, "Z" in none
Names == {"A", "Z"}

\* exactly representable speeds > 0
Speeds == {[num |-> 1, den |-> 1], [num |-> 7, den |-> 2]}

-----------------------------------------------------------------------------
(* Accessors *)

\* _asList(data, key), given the value stored under the key
_asList(slot) == slot.nodes

\* getAnimationData that falls back on the first animation
getAnimationDataOrFirst(acdData, animationName) ==
    LET anims == _asList(acdData.Animation)
        hits  == {i \in 1..Len(anims) : anims[i].id = StrV(animationName)}
    IN  IF anims = <<>> THEN 0
        ELSE IF hits = {} THEN 1
        ELSE CHOOSE i \in hits : \A j \in hits : i <= j

\* listed position of the first animation whose id equals the name, 0 for {}
getAnimationData(acdData, animationName) ==
    LET anims == _asList(acdData.Animation)
        hits  == {i \in 1..Len(anims) : anims[i].id = StrV(animationName)}
    IN  IF hits = {} THEN 0
        ELSE CHOOSE i \in hits : \A j \in hits : i <= j

\* _preloadImages that caches every Filename, whether its file exists or not
_preloadImagesNoFileCheck(tree) ==
    LET anims == _asList(tree.Animation)
    IN  UNION { UNION { { im.Filename.s :
                            im \in {_asList(fr.Image)[x] :
                                      x \in 1..Len(_asList(fr.Image))} } :
                        fr \in {_asList(an.Frame)[y] :
                                  y \in 1..Len(_asList(an.Frame))} } :
                an \in {anims[z] : z \in 1..Len(anims)} }

\* every Filename found in the tree whose file exists (in these documents
\* only Image blocks hold one)
_preloadImages(tree) ==
    LET anims == _asList(tree.Animation)
        found == UNION { UNION { { im.Filename.s :
                                     im \in {_asList(fr.Image)[x] :
                                               x \in 1..Len(_asList(fr.Image))} } :
                                 fr \in {_asList(an.Frame)[y] :
                                           y \in 1..Len(_asList(an.Frame))} } :
                         an \in {anims[z] : z \in 1..Len(anims)} }
    IN  found \cap DiskFiles

\* charData.get("DefaultFrameDuration", 10) of the first Character
DefaultOf(tree) ==
    LET chars == _asList(tree.Character)
    IN  IF chars = <<>> THEN IntV(10)
        ELSE IF chars[1].DefaultFrameDuration = None THEN IntV(10)
        ELSE chars[1].DefaultFrameDuration

Max(a, b) == IF a >= b THEN a ELSE b

\* msDuration without the floor of 10 ms
msDurationUnclamped(rawDuration, spd) ==
    (rawDuration * 10 * spd.den) \div spd.num

\* max(10, int((rawDuration * 10) / speed)) for an int rawDuration
msDuration(rawDuration, spd) ==
    Max(10, (rawDuration * 10 * spd.den) \div spd.num)

\* the filenames _composeFrame draws, first drawn first
DrawOrder(frame, cache) ==
    LET images == Reverse(_asList(frame.Image))
    IN  SelectCached([i \in 1..Len(images) |-> images[i].Filename.s], cache)

-----------------------------------------------------------------------------
(* Bitmaps.  An image is the sequence of its pixels, each an opaque colour *)
(* or Transparent; Magenta is the key colour QColor(255, 0, 255).          *)

Magenta     == "magenta"
Transparent == "transparent"

\* QImage(path) for the files on disk
Pixels == ("a.bmp" :> <<"red", Magenta>>) @@ ("b.bmp" :> <<"blue", Magenta, "blue">>)

\* the key colour masked out, every other pixel kept opaque
_applyTransparency(image) ==
    [q \in 1..Len(image) |-> IF image[q] = Magenta THEN Transparent ELSE image[q]]

\* painter.drawImage(0, 0, layerImg) on the canvas, source-over
drawImage(baseImage, layerImg) ==
    [q \in 1..Len(baseImage) |->
        IF q <= Len(layerImg) /\ layerImg[q] # Transparent
        THEN layerImg[q] ELSE baseImage[q]]

\* baseImage after the loop of _composeFrame has drawn the cached layers
\* named, from baseImage on; <<>> is the null image
RECURSIVE Painted(_, _)
Painted(drawn, baseImage) ==
    IF drawn = <<>> THEN baseImage
    ELSE LET layerImg == _applyTransparency(Pixels[Head(drawn)])
             canvas   == IF baseImage = <<>>
                         THEN [q \in 1..Len(layerImg) |-> Transparent]
                         ELSE baseImage
         IN  Painted(Tail(drawn), drawImage(canvas, layerImg))

-----------------------------------------------------------------------------
(* Observable effects.  trace is the sequence of the steps the worker has  *)
(* begun: a call of _playAnimation (play), a frame whose cancellation      *)
(* check passed (frame), the emission of animationFinished (finished).     *)
(* Each step carries the pass, the position in self.animations and the     *)
(* frame it is about, and evs, the signals emitted and msleep calls made   *)
(* since it began, in order: frameReady, playSound, wait.                  *)

Step(kind, fi, name) ==
    [kind |-> kind, pass |-> loopCount, ai |-> animIdx, fi |-> fi,
     name |-> name, evs |-> <<>>]

Ev(type, drawn, file, ms) ==
    [type |-> type, drawn |-> drawn, file |-> file, ms |-> ms]

Begin(step) == Append(trace, step)

Emit(ev) == [trace EXCEPT ![Len(trace)].evs = Append(@, ev)]

\* how far the trace has grown: steps begun, events of the last step
Mark == [step |-> Len(trace),
         ev   |-> IF trace = <<>> THEN 0 ELSE Len(trace[Len(trace)].evs)]

CurFrame == _asList(_asList(data.Animation)[curAnim].Frame)[frameIdx]

-----------------------------------------------------------------------------
(* Text.  A str is the sequence of its lexical pieces: a piece is one      *)
(* character (a space, a double quote, "=", "-", a digit) or a run of      *)
(* letters that the patterns treat alike ("Define", "End", a name); "//"   *)
(* is the two slashes that open a comment and "sup2" the character U+00B2, *)
(* SUPERSCRIPT TWO, which the ISO-8859-1 decoding of loadAcd can produce.  *)

Space == " "
Quote == "\""

\* characters for which str.isdigit() is true: the decimal digits, and the
\* digits that int() does not accept
DecimalDigits == {"0", "2", "4"}
OtherDigits   == {"sup2"}

DigitValue == ("0" :> 0) @@ ("2" :> 2) @@ ("4" :> 4)

\* pieces matched by \w
WordPieces == {"Define", "End", "A", "B", "x", "id"} \cup DecimalDigits \cup OtherDigits

RECURSIVE lstrip(_, _)
lstrip(str, chars) ==
    IF str # <<>> /\ Head(str) \in chars THEN lstrip(Tail(str), chars) ELSE str

RECURSIVE rstrip(_, _)
rstrip(str, chars) ==
    IF str # <<>> /\ str[Len(str)] \in chars
    THEN rstrip(SubSeq(str, 1, Len(str) - 1), chars)
    ELSE str

\* str.strip(chars)
strip(str, chars) == rstrip(lstrip(str, chars), chars)

\* how many pieces from position from on are matched by \w+
RECURSIVE WordRun(_, _)
WordRun(str, from) ==
    IF from <= Len(str) /\ str[from] \in WordPieces
    THEN 1 + WordRun(str, from + 1)
    ELSE 0

isdigit(str) ==
    /\ str # <<>>
    /\ \A i \in 1..Len(str) : str[i] \in DecimalDigits \cup OtherDigits

RECURSIVE Decimal(_)
Decimal(str) ==
    IF str = <<>> THEN 0
    ELSE Decimal(SubSeq(str, 1, Len(str) - 1)) * 10 + DigitValue[str[Len(str)]]

\* values of the parser: an int, a str, or the ValueError that int() raised
Integer(i) == [t |-> "int", n |-> i, s |-> <<>>]
Str(x)     == [t |-> "str", n |-> 0, s |-> x]
ValueError == [t |-> "raise", n |-> 0, s |-> <<>>]
Unset      == [t |-> "none", n |-> 0, s |-> <<>>]

\* int(value) for a value that passed isdigit()
int(str) ==
    IF \E i \in 1..Len(str) : str[i] \in OtherDigits THEN ValueError
    ELSE Integer(Decimal(str))

_parseVal(value) ==
    LET stripped == strip(strip(value, {Space}), {Quote})
    IN  IF isdigit(stripped) THEN int(stripped) ELSE Str(stripped)

\* startBlockPattern.match(line): ^\s*(Define\w+)(?:\s+(.*))?$
startMatch(line) ==
    LET n    == WordRun(line, 2)
        rest == SubSeq(line, n + 2, Len(line))
    IN  [ok    |-> /\ line # <<>> /\ line[1] = "Define" /\ n >= 1
                   /\ rest = <<>> \/ rest[1] = Space,
         group |-> SubSeq(line, 1, n + 1),
         arg   |-> lstrip(rest, {Space})]

\* endBlockPattern.match(line): ^\s*(End\w+)\s*$
endMatch(line) ==
    /\ line # <<>> /\ line[1] = "End"
    /\ WordRun(line, 2) >= 1
    /\ WordRun(line, 2) + 1 = Len(line)

\* propertyPattern.match(line): ^\s*(\w+)\s*=\s*(.*)$
propertyMatch(line) ==
    LET n     == WordRun(line, 1)
        after == lstrip(SubSeq(line, n + 1, Len(line)), {Space})
    IN  [ok    |-> n >= 1 /\ after # <<>> /\ after[1] = "=",
         key   |-> SubSeq(line, 1, n),
         value |-> IF after = <<>> THEN <<>> ELSE lstrip(Tail(after), {Space})]

\* not line or line.startswith("//")
isSkipped(line) == IF line = <<>> THEN TRUE ELSE line[1] = "//"

-----------------------------------------------------------------------------
(* Dicts.  A dict maps its keys to what is stored under each: a scalar, a  *)
(* reference to another dict of the heap, or a list of such.               *)

Scalar(v) == [k |-> "val", v |-> v, ref |-> 0, items |-> <<>>]
Ref(node) == [k |-> "node", v |-> Unset, ref |-> node, items |-> <<>>]
List(xs)  == [k |-> "list", v |-> Unset, ref |-> 0, items |-> xs]

NewDict == [key \in {} |-> Scalar(Unset)]

\* dict[key] = entry
Put(dict, key, entry) ==
    [x \in DOMAIN dict \cup {key} |-> IF x = key THEN entry ELSE dict[x]]

\* the dict parent after _addChild(parent, key, child)
_addChild(parent, key, child) ==
    IF key \notin DOMAIN parent THEN Put(parent, key, Ref(child))
    ELSE IF parent[key].k = "list"
         THEN Put(parent, key, List(Append(parent[key].items, Ref(child))))
         ELSE Put(parent, key, List(<<parent[key], Ref(child)>>))

\* the lines texts are made of
Lines ==
    { <<Space>>,
      <<"//", "x">>,
      <<"Define", "A">>,
      <<Space, "Define", "B", Space, Quote, "4", "2", Quote>>,
      <<"End", "A">>,
      <<"x", Space, "=", Space, "4", "2">>,
      <<"x", "=", Quote, "-", "4", Quote>>,
      <<"A", "=", "2">>,
      <<"id", "=", "x">>,
      <<"x", "=", "sup2">>,
      <<"x", Space, "-">> }

\* what a processed line did
Did(kind, node, parent, key, val) ==
    [kind |-> kind, node |-> node, parent |-> parent, key |-> key, val |-> val]

\* the values the load-time variables have while nothing is being loaded
NotLoading ==
    /\ text = <<>>
    /\ lineNo = 0
    /\ heap = <<>>
    /\ stack = <<>>
    /\ status = "idle"
    /\ log = <<>>
    /\ arg = <<>>
    /\ ret = Unset

-----------------------------------------------------------------------------
(* State machine *)

Init ==
    /\ data \in Documents
    /\ parsed = data
    /\ animations \in SeqsUpTo(Names, MaxNames)
    /\ speed \in Speeds
    /\ cycles \in -1..MaxCycles
    /\ running = TRUE
    /\ imageCache = {}
    /\ defaultDuration = IntV(10)
    /\ loopCount = 0
    /\ pc = "idle"
    /\ animIdx = 0
    /\ curAnim = 0
    /\ frameIdx = 0
    /\ trace = <<>>
    /\ stopAt = [step |-> -1, ev |-> 0]
    /\ stopPos = [pc |-> "idle", pass |-> 0, ai |-> 0, fi |-> 0]
    /\ NotLoading

\* AnimationWorker.stop, called from the controller thread
stop ==
    /\ running' = FALSE
    /\ stopAt' = IF running THEN Mark ELSE stopAt
    /\ stopPos' = IF running
                  THEN [pc |-> pc, pass |-> loopCount, ai |-> animIdx, fi |-> frameIdx]
                  ELSE stopPos
    /\ UNCHANGED <<data, parsed, animations, speed, cycles, imageCache,
                   defaultDuration, loopCount, pc, animIdx, curAnim, frameIdx, trace>>
    /\ UNCHANGED loadVars

\* start that sets the flag again
startRearmed ==
    /\ pc = "idle"
    /\ pc' = "preload"
    /\ running' = TRUE
    /\ UNCHANGED <<data, parsed, animations, speed, cycles, imageCache,
                   defaultDuration, loopCount, animIdx, curAnim, frameIdx,
                   trace, stopAt, stopPos>>
    /\ UNCHANGED loadVars

\* MSAgentWidget.start: the thread starts and calls run
start ==
    /\ pc = "idle"
    /\ pc' = "preload"
    /\ UNCHANGED <<data, parsed, animations, speed, cycles, running, imageCache,
                   defaultDuration, loopCount, animIdx, curAnim, frameIdx,
                   trace, stopAt, stopPos>>
    /\ UNCHANGED loadVars

\* run, up to the while loop
runSetup ==
    /\ pc = "preload"
    /\ imageCache' = _preloadImages(data)
    /\ defaultDuration' = DefaultOf(data)
    /\ loopCount' = 0
    /\ pc' = "while"
    /\ UNCHANGED <<data, parsed, animations, speed, cycles, running,
                   animIdx, curAnim, frameIdx, trace, stopAt, stopPos>>
    /\ UNCHANGED loadVars

\* while self._running: if self.cycles != -1 and loopCount >= self.cycles: break
\* (a run with cycles = -1 is followed for MaxPasses passes)
whileCheck ==
    /\ pc = "while"
    /\ IF running /\ ~(cycles # -1 /\ loopCount >= cycles)
       THEN /\ loopCount < MaxPasses \/ cycles # -1
            /\ pc' = "for"
            /\ animIdx' = 1
       ELSE /\ pc' = "finish"
            /\ UNCHANGED animIdx
    /\ UNCHANGED <<data, parsed, animations, speed, cycles, running, imageCache,
                   defaultDuration, loopCount, curAnim, frameIdx, trace,
                   stopAt, stopPos>>
    /\ UNCHANGED loadVars

\* for animationName in self.animations: if not self._running: break
\* and, when the loop is left, loopCount += 1
forCheck ==
    /\ pc = "for"
    /\ IF animIdx <= Len(animations) /\ running
       THEN /\ pc' = "play"
            /\ UNCHANGED loopCount
       ELSE /\ pc' = "while"
            /\ loopCount' = loopCount + 1
    /\ UNCHANGED <<data, parsed, animations, speed, cycles, running, imageCache,
                   defaultDuration, animIdx, curAnim, frameIdx, trace,
                   stopAt, stopPos>>
    /\ UNCHANGED loadVars

\* _playAnimation up to its for loop
playAnimation ==
    /\ pc = "play"
    /\ LET found == getAnimationData(data, animations[animIdx])
       IN  /\ curAnim' = found
           /\ trace' = Begin(Step("play", 0, animations[animIdx]))
           /\ IF found = 0
              THEN /\ pc' = "for"
                   /\ animIdx' = animIdx + 1
                   /\ UNCHANGED frameIdx
              ELSE /\ pc' = "frame"
                   /\ frameIdx' = 1
                   /\ UNCHANGED animIdx
    /\ UNCHANGED <<data, parsed, animations, speed, cycles, running, imageCache,
                   defaultDuration, loopCount, stopAt, stopPos>>
    /\ UNCHANGED loadVars

\* frameCheck without the test of self._running
frameCheckNoCancel ==
    /\ pc = "frame"
    /\ IF frameIdx <= Len(_asList(_asList(data.Animation)[curAnim].Frame))
       THEN /\ pc' = "compose"
            /\ trace' = Begin(Step("frame", frameIdx, animations[animIdx]))
            /\ UNCHANGED animIdx
       ELSE /\ pc' = "for"
            /\ animIdx' = animIdx + 1
            /\ UNCHANGED trace
    /\ UNCHANGED <<data, parsed, animations, speed, cycles, running, imageCache,
                   defaultDuration, loopCount, curAnim, frameIdx, stopAt, stopPos>>
    /\ UNCHANGED loadVars

\* for frame in frames: if not self._running: return
frameCheck ==
    /\ pc = "frame"
    /\ IF /\ frameIdx <= Len(_asList(_asList(data.Animation)[curAnim].Frame))
          /\ running
       THEN /\ pc' = "compose"
            /\ trace' = Begin(Step("frame", frameIdx, animations[animIdx]))
            /\ UNCHANGED animIdx
       ELSE /\ pc' = "for"
            /\ animIdx' = animIdx + 1
            /\ UNCHANGED trace
    /\ UNCHANGED <<data, parsed, animations, speed, cycles, running, imageCache,
                   defaultDuration, loopCount, curAnim, frameIdx, stopAt, stopPos>>
    /\ UNCHANGED loadVars

\* img = self._composeFrame(frame); if not img.isNull(): self.imageReady.emit(img)
composeFrame ==
    /\ pc = "compose"
    /\ LET drawn == DrawOrder(CurFrame, imageCache)
       IN  /\ trace' = IF drawn # <<>>
                       THEN Emit(Ev("frameReady", drawn, "", 0))
                       ELSE trace
           \* images.reverse() reverses the document's own list when the
           \* frame has several Image blocks, a fresh [val] otherwise
           /\ data' = IF CurFrame.Image.k = "many"
                      THEN [data EXCEPT
                              !.Animation.nodes[curAnim].Frame.nodes[frameIdx].Image.nodes
                                  = Reverse(@)]
                      ELSE data
    /\ pc' = "sound"
    /\ UNCHANGED <<parsed, animations, speed, cycles, running, imageCache,
                   defaultDuration, loopCount, animIdx, curAnim, frameIdx,
                   stopAt, stopPos>>
    /\ UNCHANGED loadVars

\* playSound that sends the cue only for a frame that reached the sink
playSoundIfImage ==
    /\ pc = "sound"
    /\ trace' = IF /\ Truthy(CurFrame.SoundEffect)
                   /\ trace[Len(trace)].evs # <<>>
                THEN Emit(Ev("playSound", <<>>, CurFrame.SoundEffect.s, 0))
                ELSE trace
    /\ pc' = "sleep"
    /\ UNCHANGED <<data, parsed, animations, speed, cycles, running, imageCache,
                   defaultDuration, loopCount, animIdx, curAnim, frameIdx,
                   stopAt, stopPos>>
    /\ UNCHANGED loadVars

\* soundEffect = frame.get("SoundEffect", None); if soundEffect: emit
playSound ==
    /\ pc = "sound"
    /\ trace' = IF Truthy(CurFrame.SoundEffect)
                THEN Emit(Ev("playSound", <<>>, CurFrame.SoundEffect.s, 0))
                ELSE trace
    /\ pc' = "sleep"
    /\ UNCHANGED <<data, parsed, animations, speed, cycles, running, imageCache,
                   defaultDuration, loopCount, animIdx, curAnim, frameIdx,
                   stopAt, stopPos>>
    /\ UNCHANGED loadVars

\* rawDuration = frame.get("Duration", self.defaultDuration); msleep(max(10, ...))
\* str * 10 / float raises TypeError, which ends run
sleep ==
    /\ pc = "sleep"
    /\ LET rawDuration == IF CurFrame.Duration = None THEN defaultDuration
                          ELSE CurFrame.Duration
       IN  IF rawDuration.t = "int"
           THEN /\ trace' = Emit(Ev("wait", <<>>, "", msDuration(rawDuration.n, speed)))
                /\ frameIdx' = frameIdx + 1
                /\ pc' = "frame"
           ELSE /\ pc' = "raised"
                /\ UNCHANGED <<trace, frameIdx>>
    /\ UNCHANGED <<data, parsed, animations, speed, cycles, running, imageCache,
                   defaultDuration, loopCount, animIdx, curAnim, stopAt, stopPos>>
    /\ UNCHANGED loadVars

\* self.animationFinished.emit()
emitFinished ==
    /\ pc = "finish"
    /\ trace' = Begin([Step("finished", 0, "") EXCEPT !.ai = 0])
    /\ pc' = "done"
    /\ UNCHANGED <<data, parsed, animations, speed, cycles, running, imageCache,
                   defaultDuration, loopCount, animIdx, curAnim, frameIdx,
                   stopAt, stopPos>>
    /\ UNCHANGED loadVars

Worker == \/ runSetup \/ whileCheck \/ forCheck \/ playAnimation
          \/ frameCheck \/ composeFrame \/ playSound \/ sleep \/ emitFinished

Next == start \/ stop \/ Worker

Spec == Init /\ [][Next]_vars

-----------------------------------------------------------------------------
(* parseAcd, one line of the text at a time *)

playVars == <<data, parsed, animations, speed, cycles, running, imageCache,
              defaultDuration, loopCount, pc, animIdx, curAnim, frameIdx,
              trace, stopAt, stopPos>>

\* no worker has been constructed yet
NotPlaying ==
    /\ data = [Character |-> Absent, Animation |-> Absent]
    /\ parsed = data
    /\ animations = <<>>
    /\ speed = [num |-> 1, den |-> 1]
    /\ cycles = 1
    /\ running = TRUE
    /\ imageCache = {}
    /\ defaultDuration = IntV(10)
    /\ loopCount = 0
    /\ pc = "idle"
    /\ animIdx = 0
    /\ curAnim = 0
    /\ frameIdx = 0
    /\ trace = <<>>
    /\ stopAt = [step |-> -1, ev |-> 0]
    /\ stopPos = [pc |-> "idle", pass |-> 0, ai |-> 0, fi |-> 0]

\* data = {}; stack = [("root", data)]
ParseInit ==
    /\ NotPlaying
    /\ text \in SeqsUpTo(Lines, MaxLines)
    /\ lineNo = 0
    /\ heap = <<NewDict>>
    /\ stack = <<[name |-> <<"root">>, node |-> 1]>>
    /\ status = "parsing"
    /\ log = <<>>
    /\ arg = <<>>
    /\ ret = Unset

\* line = line.strip()
Line == strip(text[lineNo + 1], {Space})

\* stack[-1]
Top == stack[Len(stack)]

AtLine == status = "parsing" /\ lineNo < Len(text)

\* if not line or line.startswith("//"): continue
skipLine ==
    /\ AtLine
    /\ isSkipped(Line)
    /\ lineNo' = lineNo + 1
    /\ log' = Append(log, Did("skip", 0, 0, <<>>, Unset))
    /\ UNCHANGED <<text, heap, stack, status, arg, ret>>
    /\ UNCHANGED playVars

\* if startMatch: ... _addChild(parentObj, blockType, newBlock); stack.append
startBlock ==
    /\ AtLine
    /\ ~isSkipped(Line)
    /\ startMatch(Line).ok
    /\ LET m         == startMatch(Line)
           blockType == SelectSeq(m.group, LAMBDA piece : piece # "Define")
           id        == IF m.arg # <<>> THEN _parseVal(m.arg) ELSE Unset
           newBlock  == IF m.arg # <<>> THEN Put(NewDict, <<"id">>, Scalar(id))
                        ELSE NewDict
           child     == Len(heap) + 1
       IN  IF id = ValueError
           THEN /\ status' = "raised"
                /\ log' = Append(log, Did("raise", 0, Top.node, blockType, id))
                /\ UNCHANGED <<lineNo, heap, stack>>
           ELSE /\ heap' = Append([heap EXCEPT ![Top.node] =
                                       _addChild(@, blockType, child)], newBlock)
                /\ stack' = Append(stack, [name |-> blockType, node |-> child])
                /\ lineNo' = lineNo + 1
                /\ log' = Append(log, Did("start", child, Top.node, blockType, id))
                /\ UNCHANGED status
    /\ UNCHANGED <<text, arg, ret>>
    /\ UNCHANGED playVars

\* endBlock that pops whatever is on the stack
endBlockUnguarded ==
    /\ AtLine
    /\ ~isSkipped(Line)
    /\ ~startMatch(Line).ok
    /\ endMatch(Line)
    /\ stack' = SubSeq(stack, 1, Len(stack) - 1)
    /\ lineNo' = lineNo + 1
    /\ log' = Append(log, Did("end", 0, 0, <<>>, Unset))
    /\ UNCHANGED <<text, heap, status, arg, ret>>
    /\ UNCHANGED playVars

\* if endMatch: if len(stack) > 1: stack.pop()
endBlock ==
    /\ AtLine
    /\ ~isSkipped(Line)
    /\ ~startMatch(Line).ok
    /\ endMatch(Line)
    /\ stack' = IF Len(stack) > 1 THEN SubSeq(stack, 1, Len(stack) - 1) ELSE stack
    /\ lineNo' = lineNo + 1
    /\ log' = Append(log, Did("end", 0, 0, <<>>, Unset))
    /\ UNCHANGED <<text, heap, status, arg, ret>>
    /\ UNCHANGED playVars

\* if propertyMatch: currentObj[key] = _parseVal(value)
setProperty ==
    /\ AtLine
    /\ ~isSkipped(Line)
    /\ ~startMatch(Line).ok
    /\ ~endMatch(Line)
    /\ propertyMatch(Line).ok
    /\ LET m   == propertyMatch(Line)
           val == _parseVal(m.value)
       IN  IF val = ValueError
           THEN /\ status' = "raised"
                /\ log' = Append(log, Did("raise", Top.node, 0, m.key, val))
                /\ UNCHANGED <<lineNo, heap>>
           ELSE /\ heap' = [heap EXCEPT ![Top.node] = Put(@, m.key, Scalar(val))]
                /\ lineNo' = lineNo + 1
                /\ log' = Append(log, Did("prop", Top.node, 0, m.key, val))
                /\ UNCHANGED status
    /\ UNCHANGED <<text, stack, arg, ret>>
    /\ UNCHANGED playVars

\* a line that matches no pattern: the loop goes on to the next line
ignoreLine ==
    /\ AtLine
    /\ ~isSkipped(Line)
    /\ ~startMatch(Line).ok
    /\ ~endMatch(Line)
    /\ ~propertyMatch(Line).ok
    /\ lineNo' = lineNo + 1
    /\ log' = Append(log, Did("ignore", 0, 0, <<>>, Unset))
    /\ UNCHANGED <<text, heap, stack, status, arg, ret>>
    /\ UNCHANGED playVars

\* return data
returnData ==
    /\ status = "parsing"
    /\ lineNo = Len(text)
    /\ status' = "returned"
    /\ UNCHANGED <<text, lineNo, heap, stack, log, arg, ret>>
    /\ UNCHANGED playVars

ParseNext == \/ skipLine \/ startBlock \/ endBlock \/ setProperty
             \/ ignoreLine \/ returnData

ParseSpec == ParseInit /\ [][ParseNext]_vars

-----------------------------------------------------------------------------
(* _parseVal applied to a value text *)

\* the pieces value texts are made of
ValuePieces == {Space, Quote, "4", "2", "-", "x", "sup2"}

ValInit ==
    /\ NotPlaying
    /\ text = <<>>
    /\ lineNo = 0
    /\ heap = <<>>
    /\ stack = <<>>
    /\ log = <<>>
    /\ status = "calling"
    /\ arg \in SeqsUpTo(ValuePieces, MaxValueLen)
    /\ ret = Unset

callParseVal ==
    /\ status = "calling"
    /\ ret' = _parseVal(arg)
    /\ status' = IF _parseVal(arg) = ValueError THEN "raised" ELSE "returned"
    /\ UNCHANGED <<text, lineNo, heap, stack, log, arg>>
    /\ UNCHANGED playVars

ValNext == callParseVal

ValSpec == ValInit /\ [][ValNext]_vars

-----------------------------------------------------------------------------
(* listAnimations applied to a document *)

\* a dict of the document, as far as listAnimations reads it: its id and
\* what is stored under Animation
Node(id, anims) == [id |-> id, Animation |-> anims]

\* isinstance(x, dict), as opposed to a scalar stored by a property line
IsDict(x) == "id" \in DOMAIN x

\* what can be found in the value stored under Animation: blocks with a str
\* id, an empty id, an int id or none, and the scalar of `Animation = 5`
AnimationItems ==
    { Node(StrV("A"), Absent), Node(StrV("B"), Absent), Node(StrV(""), Absent),
      Node(IntV(7), Absent), Node(None, Absent), IntV(5) }

\* a scalar is only ever the first item of a list (_addChild wraps it)
ListedSlots ==
    {Absent} \cup {One(x) : x \in AnimationItems}
    \cup {Many(xs) : xs \in {ys \in UNION {[1..m -> AnimationItems] : m \in 2..MaxAnims} :
                                \A j \in 2..Len(ys) : IsDict(ys[j])}}

\* no Character, or one Character with Animation blocks inside it
ListedCharacters ==
    { Absent,
      One(Node(None, Absent)),
      One(Node(None, One(Node(StrV("A"), Absent)))),
      One(Node(None, Many(<<Node(StrV("B"), Absent), Node(StrV("A"), Absent)>>))) }

\* str names in code point order
NameOrder == <<"", "A", "B">>

Rank(name) == CHOOSE i \in 1..Len(NameOrder) : NameOrder[i] = name

RECURSIVE sorted(_)
sorted(names) ==
    IF names = <<>> THEN <<>>
    ELSE LET m == CHOOSE i \in 1..Len(names) :
                      \A j \in 1..Len(names) :
                          Rank(names[i]) < Rank(names[j])
                          \/ (Rank(names[i]) = Rank(names[j]) /\ i <= j)
         IN  <<names[m]>> \o sorted(SubSeq(names, 1, m - 1)
                                     \o SubSeq(names, m + 1, Len(names)))

\* the names listAnimations returns, or the AttributeError of
\* animation.get on an item that is no dict
listAnimations(acdData) ==
    LET items == _asList(acdData.Animation)
    IN  IF \E i \in 1..Len(items) : ~IsDict(items[i])
        THEN [t |-> "raise", names |-> <<>>]
        ELSE LET named == SelectSeq(items,
                              LAMBDA animation : /\ animation.id.t = "str"
                                                 /\ Truthy(animation.id))
             IN  [t |-> "list",
                  names |-> sorted([i \in 1..Len(named) |-> named[i].id.s])]

ListInit ==
    /\ NotPlaying
    /\ text = <<>>
    /\ lineNo = 0
    /\ heap = <<>>
    /\ stack = <<>>
    /\ log = <<>>
    /\ status = "calling"
    /\ arg \in {[Character |-> c, Animation |-> a] :
                   c \in ListedCharacters, a \in ListedSlots}
    /\ ret = Unset

callListAnimations ==
    /\ status = "calling"
    /\ ret' = listAnimations(arg)
    /\ status' = IF listAnimations(arg).t = "raise" THEN "raised" ELSE "returned"
    /\ UNCHANGED <<text, lineNo, heap, stack, log, arg>>
    /\ UNCHANGED playVars

ListNext == callListAnimations

ListSpec == ListInit /\ [][ListNext]_vars

-----------------------------------------------------------------------------
(* Reading the trace *)

Steps(kinds) == {i \in 1..Len(trace) : trace[i].kind \in kinds}

\* positions in the events of step i that hold an event of the type
EvsOf(i, type) == {k \in 1..Len(trace[i].evs) : trace[i].evs[k].type = type}

\* the run has ended: run returned, or an exception ended it
Ended == pc \in {"done", "raised"}

\* the worker thread can take no further step
AtRest == pc # "idle" /\ ~ENABLED Worker

\* event k of step i was emitted after stop() cleared the flag
AfterStop(i, k) ==
    /\ stopAt.step >= 0
    /\ i > stopAt.step \/ (i = stopAt.step /\ k > stopAt.ev)

SamePlace(step) == step.pass = stopPos.pass /\ step.ai = stopPos.ai

\* the frames of a requested animation in the parsed document
ParsedFrames(name) ==
    LET at == getAnimationData(parsed, name)
    IN  IF at = 0 THEN <<>> ELSE _asList(_asList(parsed.Animation)[at].Frame)

\* the frame of the parsed document that a frame step is about
FrameOf(step) == ParsedFrames(step.name)[step.fi]

LayerNames(frame) ==
    [i \in 1..Len(frame.Image.nodes) |-> frame.Image.nodes[i].Filename.s]

Resolvable(frame) ==
    \E i \in 1..Len(LayerNames(frame)) : LayerNames(frame)[i] \in DiskFiles

\* the frame of step i is past its sound step / past its wait
SoundDone(i) == i < Len(trace) \/ pc \notin {"compose", "sound"}
WaitDone(i)  == i < Len(trace) \/ pc \notin {"compose", "sound", "sleep"}

-----------------------------------------------------------------------------
(* C1: every run emits finished() exactly once, whether it ends by         *)
(* exhausting its cycles or by cancellation: it is never emitted twice,    *)
(* nothing is emitted after it, and a run that has ended has emitted it.   *)
C1_FinishedExactlyOnce ==
    /\ Cardinality(Steps({"finished"})) <= 1
    /\ \A i \in Steps({"finished"}) : i = Len(trace) /\ trace[i].evs = <<>>
    /\ Ended => Steps({"finished"}) # {}

(* C2: once stop() has cleared the flag, only the frame whose cancellation *)
(* check had already passed still emits (its frameReady, its playSound,    *)
(* its wait); no later frame, no later animation and no later pass starts. *)
C2_OnlyInFlightFrameAfterStop ==
    stopAt.step >= 0 =>
        \A i \in 1..Len(trace) :
            /\ i > stopAt.step =>
                 /\ trace[i].kind \in {"play", "finished"}
                 /\ trace[i].kind = "play" =>
                       stopPos.pc = "play" /\ SamePlace(trace[i])
                 /\ trace[i].evs = <<>>
            /\ \A k \in 1..Len(trace[i].evs) :
                 AfterStop(i, k) =>
                     /\ i = stopAt.step /\ trace[i].kind = "frame"
                     /\ SamePlace(trace[i]) /\ trace[i].fi = stopPos.fi
                     /\ trace[i].evs[k].type = "frameReady" => stopPos.pc = "compose"
                     /\ trace[i].evs[k].type = "playSound" =>
                           stopPos.pc \in {"compose", "sound"}
                     /\ trace[i].evs[k].type = "wait" =>
                           stopPos.pc \in {"compose", "sound", "sleep"}

\* stop() arrived while the first of two frames was in flight in the first of
\* two passes; that frame still emitted and waited, and run has returned
C2_Witness ==
    /\ pc = "done"
    /\ cycles = 2
    /\ stopPos.pc = "compose" /\ stopPos.pass = 0 /\ stopPos.fi = 1
    /\ Len(ParsedFrames(animations[stopPos.ai])) = 2
    /\ \E k \in EvsOf(stopAt.step, "frameReady") : AfterStop(stopAt.step, k)
    /\ \E k \in EvsOf(stopAt.step, "wait") : AfterStop(stopAt.step, k)

(* C3: after stop() is called during a run the worker makes at most one   *)
(* more timed wait and, once it can take no further step, has emitted      *)
(* finished().                                                              *)
C3_StopEndsInFinished ==
    (stopAt.step >= 0 /\ stopPos.pc \notin {"idle", "done", "raised"}) =>
        /\ Cardinality(UNION {{<<i, k>> : k \in {x \in EvsOf(i, "wait") : AfterStop(i, x)}} :
                                 i \in 1..Len(trace)}) <= 1
        /\ AtRest => Steps({"finished"}) # {}

PlayedNames ==
    LET plays == SelectSeq(trace, LAMBDA st : st.kind = "play")
    IN  [i \in 1..Len(plays) |-> plays[i].name]

Repeat(seq, n) ==
    [i \in 1..(n * Len(seq)) |-> seq[((i - 1) % Len(seq)) + 1]]

(* C4: a run that is not cancelled, with cycles = n >= 0, plays the names  *)
(* of the list in order n times over and then emits finished(); with       *)
(* cycles = -1 it does not finish while it is not stopped; the cycle bound *)
(* ends the run only between full passes.                                  *)
C4_ExactlyNPasses ==
    /\ (running /\ cycles >= 0 /\ AtRest) =>
          /\ PlayedNames = Repeat(animations, cycles)
          /\ trace # <<>> /\ trace[Len(trace)].kind = "finished"
    /\ (running /\ cycles = -1) => pc \notin {"finish", "done"}
    /\ (running /\ pc = "finish") => Len(PlayedNames) = cycles * Len(animations)

\* the steps of the play begun at step i
PlayEnd(i) ==
    LET later == {j \in Steps({"play", "finished"}) : j > i}
    IN  IF later = {} THEN Len(trace) + 1
        ELSE CHOOSE j \in later : \A x \in later : j <= x

\* the frames of the play begun at step i that reached the sink, in order
ReadyFrames(i) ==
    LET ready == SelectSeq(SubSeq(trace, i + 1, PlayEnd(i) - 1),
                           LAMBDA st : \E k \in 1..Len(st.evs) :
                                           st.evs[k].type = "frameReady")
    IN  [k \in 1..Len(ready) |-> ready[k].fi]

PlayOver(i) == PlayEnd(i) <= Len(trace) \/ AtRest \/ pc \in {"for", "while", "finish"}

(* C5: for each play of an animation that is not cancelled, the frameReady *)
(* events are exactly the animation's frames that have a resolvable layer, *)
(* in source order, none twice.                                            *)
C5_FramesInSourceOrder ==
    running =>
        /\ \A i \in Steps({"frame"}) : Cardinality(EvsOf(i, "frameReady")) <= 1
        /\ \A i \in Steps({"play"}) :
              PlayOver(i) =>
                  LET frames == ParsedFrames(trace[i].name)
                      ready  == ReadyFrames(i)
                      want   == {f \in 1..Len(frames) : Resolvable(frames[f])}
                  IN  /\ Len(ready) = Cardinality(want)
                      /\ \A k \in 1..Len(ready) : ready[k] \in want
                      /\ \A k \in 1..(Len(ready) - 1) : ready[k] < ready[k + 1]

(* C6: every processed frame that declares a sound cue emits exactly one   *)
(* playSound carrying that filename, after the frame's frameReady (if any) *)
(* and before the frame's wait, whether or not a frameReady was emitted; a *)
(* frame without a cue emits none, and nothing but a frame emits one.      *)
C6_OneSoundPerCue ==
    /\ \A i \in Steps({"frame"}) :
          LET cue    == FrameOf(trace[i]).SoundEffect
              sounds == EvsOf(i, "playSound")
          IN  IF SoundDone(i) /\ Truthy(cue)
              THEN /\ Cardinality(sounds) = 1
                   /\ \A k \in sounds :
                         /\ trace[i].evs[k].file = cue.s
                         /\ \A r \in EvsOf(i, "frameReady") : r < k
                         /\ \A w \in EvsOf(i, "wait") : w > k
              ELSE sounds = {}
    /\ \A i \in Steps({"play", "finished"}) : trace[i].evs = <<>>

\* a frame none of whose layers resolves still sent its cue, then waited
C6_Witness ==
    /\ pc = "done"
    /\ \E i \in Steps({"frame"}) :
          /\ ~Resolvable(FrameOf(trace[i]))
          /\ Len(trace[i].evs) = 2
          /\ trace[i].evs[1].type = "playSound"
          /\ trace[i].evs[2].type = "wait"

\* the duration a frame declares: its own, else the Character's default, else 10
DeclaredDuration(frame) ==
    LET chars == parsed.Character.nodes
    IN  IF frame.Duration.t # "none" THEN frame.Duration
        ELSE IF chars # <<>> /\ chars[1].DefaultFrameDuration.t # "none"
             THEN chars[1].DefaultFrameDuration
             ELSE IntV(10)

\* max(10, floor(d * 10 / s)) for s = num/den, floor by its defining property
ExpectedWait(d, s) ==
    LET q == CHOOSE k \in 0..(d * 10 * s.den) :
                 k * s.num <= d * 10 * s.den /\ d * 10 * s.den < (k + 1) * s.num
    IN  IF q < 10 THEN 10 ELSE q

(* C7: every processed frame that declares an integer duration d (its own  *)
(* Duration, else the Character's DefaultFrameDuration, else 10) waits     *)
(* exactly once, as the last thing it does, for max(10, floor(d*10/s)) ms; *)
(* no other frame waits.                                                    *)
C7_WaitIsClampedScaledDuration ==
    \A i \in Steps({"frame"}) :
        LET d     == DeclaredDuration(FrameOf(trace[i]))
            waits == EvsOf(i, "wait")
        IN  IF WaitDone(i) /\ d.t = "int"
            THEN /\ waits = {Len(trace[i].evs)}
                 /\ \A k \in waits : trace[i].evs[k].ms = ExpectedWait(d.n, speed)
            ELSE waits = {}

\* default 10, one animation of two frames with durations 5 and unset,
\* speed 1.0: two frameReady with waits 50 ms then 100 ms, then finished()
C7_Witness ==
    /\ pc = "done"
    /\ animations = <<"A">> /\ cycles = 1 /\ speed = [num |-> 1, den |-> 1]
    /\ Len(ParsedFrames("A")) = 2
    /\ ParsedFrames("A")[1].Duration = IntV(5)
    /\ ParsedFrames("A")[2].Duration = None
    /\ Len(trace) = 4
    /\ trace[2].evs = <<Ev("frameReady", <<"a.bmp">>, "", 0), Ev("wait", <<>>, "", 50)>>
    /\ EvsOf(3, "frameReady") = {1}
    /\ trace[3].evs[Len(trace[3].evs)] = Ev("wait", <<>>, "", 100)
    /\ trace[4].kind = "finished"

(* C8: nothing inside playback is fatal: a missing animation, a layer that *)
(* is not in the cache, a missing sound file or any value the parser can   *)
(* put in the document never aborts run, which goes on to emit finished(). *)
C8_NothingAbortsRun ==
    /\ pc # "raised"
    /\ (AtRest /\ ~(running /\ cycles = -1)) => pc = "done"

AbsentName(name) == \A i \in 1..Len(parsed.Animation.nodes) :
                        parsed.Animation.nodes[i].id # StrV(name)

(* C9: looking up a name that is absent from the document gives the empty  *)
(* animation, which has no frames; playing it emits nothing and does not   *)
(* wait, and the run goes on with the next name of the list; a run over    *)
(* absent names only emits no frameReady and emits finished() exactly once.*)
C9_AbsentAnimationIsNoOp ==
    /\ \A n \in Names :
          AbsentName(n) => getAnimationData(data, n) = 0 /\ ParsedFrames(n) = <<>>
    /\ \A i \in Steps({"play"}) :
          AbsentName(trace[i].name) =>
              /\ trace[i].evs = <<>>
              /\ IF i < Len(trace)
                 THEN /\ trace[i + 1].kind \in {"play", "finished"}
                      /\ (trace[i + 1].kind = "play" /\ trace[i].ai < Len(animations)) =>
                            /\ trace[i + 1].ai = trace[i].ai + 1
                            /\ trace[i + 1].pass = trace[i].pass
                      /\ (trace[i + 1].kind = "play" /\ trace[i].ai = Len(animations)) =>
                            /\ trace[i + 1].ai = 1
                            /\ trace[i + 1].pass = trace[i].pass + 1
                 ELSE /\ pc \in {"for", "while", "finish", "play"}
                      /\ (pc = "for" /\ running) =>
                            \/ animIdx = trace[i].ai + 1 /\ loopCount = trace[i].pass
                            \/ /\ trace[i].ai = Len(animations)
                               /\ animIdx = 1 /\ loopCount = trace[i].pass + 1
    /\ (\A k \in 1..Len(animations) : AbsentName(animations[k])) =>
          /\ \A i \in 1..Len(trace) :
                trace[i].kind \in {"play", "finished"} /\ trace[i].evs = <<>>
          /\ pc # "raised"
          /\ Cardinality(Steps({"finished"})) <= 1
          /\ (AtRest /\ ~(running /\ cycles = -1)) => Steps({"finished"}) # {}

\* an absent name was played first and the animation named after it still
\* reached the sink before run returned
C9_Witness ==
    /\ pc = "done"
    /\ animations = <<"Z", "A">>
    /\ AbsentName("Z")
    /\ Len(trace) >= 3
    /\ trace[1].kind = "play" /\ trace[1].name = "Z"
    /\ trace[2].kind = "play" /\ trace[2].name = "A"
    /\ EvsOf(3, "frameReady") # {}

(* C10: every composition of a frame, also the second and later ones of    *)
(* the same frame, draws the resolvable layers in reverse order of the     *)
(* document's layer sequence, so that its layer 0 is drawn last.           *)
C10_LayersDrawnInReverse ==
    \A i \in Steps({"frame"}) :
        \A k \in EvsOf(i, "frameReady") :
            trace[i].evs[k].drawn =
                Reverse(SelectCached(LayerNames(FrameOf(trace[i])), DiskFiles))

-----------------------------------------------------------------------------
(* Reading the parser's log *)

\* the line has none of the three shapes, or is blank or a comment
NoShape(line) ==
    \/ isSkipped(line)
    \/ ~startMatch(line).ok /\ ~endMatch(line) /\ ~propertyMatch(line).ok

\* the blocks open after the first n processed lines, outermost first, the
\* root being 1: a start opens its block, an end closes the innermost one
\* unless only the root is left
RECURSIVE OpenAfter(_)
OpenAfter(n) ==
    IF n = 0 THEN <<1>>
    ELSE LET before == OpenAfter(n - 1)
         IN  CASE log[n].kind = "start" -> Append(before, log[n].node)
               [] log[n].kind = "end" ->
                     IF Len(before) > 1 THEN SubSeq(before, 1, Len(before) - 1)
                     ELSE before
               [] OTHER -> before

Innermost(n) == OpenAfter(n)[Len(OpenAfter(n))]

LogOf(kinds) == {i \in 1..Len(log) : log[i].kind \in kinds}

(* C11: parseAcd never raises, whatever the text: a blank line, a comment  *)
(* and a line of no recognised shape are skipped and leave the tree and    *)
(* the stack as they were, and every value text, also one made of digit    *)
(* characters, is converted to a scalar without error.                     *)
C11_ParserNeverRaises ==
    [][ /\ status' # "raised"
        /\ IF AtLine /\ lineNo' = lineNo + 1
           THEN NoShape(Line) => UNCHANGED <<heap, stack>>
           ELSE TRUE ]_vars

(* C12: the stack always holds at least the root, at the bottom; it is the *)
(* root followed by the blocks that are open, where an End line closes the *)
(* innermost open block whatever its name and does nothing when only the   *)
(* root is left; the tree is untouched by End lines, and a property        *)
(* assignment is written to the innermost open block, the root if none is. *)
C12_StackKeepsRoot ==
    /\ Len(stack) >= 1
    /\ stack[1].node = 1
    /\ [i \in 1..Len(stack) |-> stack[i].node] = OpenAfter(Len(log))
    /\ Len(heap) = 1 + Cardinality(LogOf({"start"}))
    /\ \A i \in LogOf({"prop"}) : log[i].node = Innermost(i - 1)
    /\ \A i \in LogOf({"start"}) : log[i].parent = Innermost(i - 1)

\* an End at top level, then a block B closed by EndA, then x = 42: the
\* assignment went to the root
C12_Witness ==
    /\ status = "returned"
    /\ Len(text) = 4
    /\ text[1] = <<"End", "A">>
    /\ text[2] = <<Space, "Define", "B", Space, Quote, "4", "2", Quote>>
    /\ text[3] = <<"End", "A">>
    /\ log[4].kind = "prop" /\ log[4].node = 1
    /\ Len(stack) = 1
    /\ <<"x">> \in DOMAIN heap[1] /\ heap[1][<<"x">>] = Scalar(Integer(42))
    /\ DOMAIN heap[2] = {<<"id">>}

\* the block-type names that occur in the text processed so far
BlockTypes == {log[i].key : i \in LogOf({"start"})}

\* the blocks of a type started under a parent, in order of appearance
\* (dicts are numbered in the order they were created)
Kids(parent, type) ==
    LET S == {log[i].node : i \in {j \in LogOf({"start"}) :
                                      log[j].parent = parent /\ log[j].key = type}}
    IN  [j \in 1..Cardinality(S) |->
             CHOOSE n \in S : Cardinality({m \in S : m < n}) = j - 1]

(* C13: for every parent and block-type name, after k starts of that type  *)
(* under that parent the child slot is absent if k = 0, the single node if *)
(* k = 1, and the sequence of the k nodes in order of appearance if        *)
(* k >= 2; every block is attached to the innermost block open at its      *)
(* start line.                                                             *)
C13_ChildMergeRule ==
    /\ \A parent \in 1..Len(heap) : \A type \in BlockTypes :
          LET kids == Kids(parent, type)
          IN  CASE Len(kids) = 0 -> type \notin DOMAIN heap[parent]
                [] Len(kids) = 1 ->
                      /\ type \in DOMAIN heap[parent]
                      /\ heap[parent][type] = Ref(kids[1])
                [] OTHER ->
                      /\ type \in DOMAIN heap[parent]
                      /\ heap[parent][type] =
                             List([j \in 1..Len(kids) |-> Ref(kids[j])])
    /\ \A i \in LogOf({"start"}) : log[i].parent = Innermost(i - 1)

\* the assignments made to a key of a node, as positions in the log
Writes(node, key) ==
    {i \in LogOf({"prop"}) : log[i].node = node /\ log[i].key = key}

(* C18: id, properties and children of a node are separate.  Every node    *)
(* keeps the id its start line gave it (none if it gave none); every child *)
(* slot holds a node or a sequence of nodes, never a scalar; and a key     *)
(* that was assigned holds the value of its last assignment, whatever      *)
(* blocks were started since.                                              *)
C18_IdPropertiesChildrenSeparate ==
    /\ \A i \in LogOf({"start"}) :
          IF log[i].val = Unset
          THEN <<"id">> \notin DOMAIN heap[log[i].node]
          ELSE /\ <<"id">> \in DOMAIN heap[log[i].node]
               /\ heap[log[i].node][<<"id">>] = Scalar(log[i].val)
    /\ \A i \in LogOf({"start"}) :
          LET parent == heap[log[i].parent]
          IN  /\ log[i].key \in DOMAIN parent
              /\ parent[log[i].key].k \in {"node", "list"}
              /\ \A j \in 1..Len(parent[log[i].key].items) :
                    parent[log[i].key].items[j].k = "node"
    /\ \A i \in LogOf({"prop"}) :
          LET last == CHOOSE w \in Writes(log[i].node, log[i].key) :
                          \A x \in Writes(log[i].node, log[i].key) : x <= w
          IN  heap[log[i].node][log[i].key] = Scalar(log[last].val)

-----------------------------------------------------------------------------
\* the text without its surrounding pair of double quotes, if it has one
OneLayerUnquoted(str) ==
    IF Len(str) >= 2 /\ str[1] = Quote /\ str[Len(str)] = Quote
    THEN SubSeq(str, 2, Len(str) - 1)
    ELSE str

AllDecimalDigits(str) ==
    str # <<>> /\ \A i \in 1..Len(str) : str[i] \in DecimalDigits

(* C14: parseVal trims the whitespace of the value, strips exactly one     *)
(* layer of surrounding double quotes if there is one, and returns the     *)
(* non-negative integer the remaining text denotes if that text is made of *)
(* decimal digits only, the remaining text as a string otherwise.          *)
C14_ScalarParsing ==
    status # "calling" =>
        LET remaining == OneLayerUnquoted(strip(arg, {Space}))
        IN  ret = IF AllDecimalDigits(remaining)
                  THEN Integer(Decimal(remaining))
                  ELSE Str(remaining)

-----------------------------------------------------------------------------
\* the layers of the frame, by index in the document, that are resolvable
\* and have a pixel other than the key colour at position q
Showing(frame, q) ==
    {j \in 1..Len(LayerNames(frame)) :
        /\ LayerNames(frame)[j] \in DiskFiles
        /\ q <= Len(Pixels[LayerNames(frame)[j]])
        /\ Pixels[LayerNames(frame)[j]][q] # Magenta}

(* C15: every pixel of a composed bitmap has the colour of the lowest-index *)
(* resolvable layer of the frame whose pixel there is not the magenta key, *)
(* and is fully transparent if there is no such layer; alpha is binary;    *)
(* unresolvable layers do not affect the result.                           *)
C15_CompositeShowsTopmostLayer ==
    \A i \in Steps({"frame"}) :
        \A k \in EvsOf(i, "frameReady") :
            LET bitmap == Painted(trace[i].evs[k].drawn, <<>>)
                frame  == FrameOf(trace[i])
            IN  \A q \in 1..Len(bitmap) :
                    /\ bitmap[q] # Magenta
                    /\ bitmap[q] =
                          IF Showing(frame, q) = {} THEN Transparent
                          ELSE LET top == CHOOSE j \in Showing(frame, q) :
                                              \A x \in Showing(frame, q) : j <= x
                               IN  Pixels[LayerNames(frame)[top]][q]

-----------------------------------------------------------------------------
\* the ids that are strings among the Animation blocks stored in a slot
StringIds(slot) ==
    LET blocks == SelectSeq(_asList(slot),
                            LAMBDA x : IF IsDict(x) THEN x.id.t = "str" ELSE FALSE)
    IN  [i \in 1..Len(blocks) |-> blocks[i].id.s]

\* the ids that are strings among the Animation blocks under the
\* Character node(s) of the document
IdsUnderCharacter(doc) ==
    LET chars == _asList(doc.Character)
    IN  IF chars = <<>> THEN <<>> ELSE StringIds(chars[1].Animation)

Occurrences(seq, x) == Cardinality({i \in 1..Len(seq) : seq[i] = x})

(* C16: listAnimationNames returns the id of every Animation block under   *)
(* the Character node(s) whose id is a string, each as often as it occurs, *)
(* in sorted order, and skips the Animation blocks whose id is absent or   *)
(* no string.                                                              *)
C16_ListsAnimationsUnderCharacter ==
    status # "calling" =>
        /\ ret.t = "list"
        /\ \A x \in {NameOrder[i] : i \in 1..Len(NameOrder)} :
              Occurrences(ret.names, x) = Occurrences(IdsUnderCharacter(arg), x)
        /\ \A i \in 1..(Len(ret.names) - 1) :
              Rank(ret.names[i]) <= Rank(ret.names[i + 1])

-----------------------------------------------------------------------------
(* C17: playback does not mutate the document tree: whatever has been      *)
(* played, every node, property and child sequence, in its order, is as    *)
(* the parser produced it.                                                 *)
C17_TreeNotMutated == data = parsed

\* every Filename of the parsed document, at whatever depth
FilenamesIn(tree) ==
    UNION {{LayerNames(fr)[j] : j \in 1..Len(LayerNames(fr))} :
             fr \in UNION {{an.Frame.nodes[y] : y \in 1..Len(an.Frame.nodes)} :
                             an \in {tree.Animation.nodes[z] :
                                       z \in 1..Len(tree.Animation.nodes)}}}

\* the frame of step i has been composed
ComposeDone(i) == i < Len(trace) \/ pc # "compose"

C20_RunningFlagMonotone ==
    /\ running <=> stopAt.step < 0
    /\ (stopAt.step >= 0 /\ stopPos.pc = "idle") =>
          /\ Steps({"frame", "play"}) = {}
          /\ \A i \in 1..Len(trace) : trace[i].evs = <<>>
          /\ Cardinality(Steps({"finished"})) <= 1
          /\ pc # "raised"
          /\ AtRest => pc = "done" /\ Cardinality(Steps({"finished"})) = 1

\* stop() was called before start; the run of an animation that has frames,
\* asked for two cycles, returned with finished() as its only effect
C20_Witness ==
    /\ stopAt.step = 0 /\ stopPos.pc = "idle"
    /\ pc = "done"
    /\ cycles = 2
    /\ animations = <<"A">> /\ Len(ParsedFrames("A")) = 2
    /\ Len(trace) = 1 /\ trace[1].kind = "finished"

====
